---- MODULE Spec2Model ----
(***************************************************************************)
(* Model of the Pause framework (src/src/pause.js): one Pause instance,    *)
(* its external store and correction oracle (llm), and the async method    *)
(* Pause.run cut at its await points.                                      *)
(*                                                                         *)
(* Abstractions                                                            *)
(*  - Code texts are names; what matters of a text is whether              *)
(*    `new Function("return " + text)()` raises (SyntaxOk) and what        *)
(*    running it does (returns a value or throws, chosen per execution).   *)
(*  - Thrown values are Error objects: obj is the identity of the object,  *)
(*    message its (mutable) message, a flat sequence of strings.           *)
(*  - The store is read-after-write consistent; when the constructor got   *)
(*    no store functions the defaults of lines 30-31 are used.             *)
(*  - maxAiRetries is an integer.                                          *)
(*  - Of the arguments of a call only whether JSON.stringify accepts them  *)
(*    (argsOk) is kept.                                                    *)
(*  - obs is what an observer of the calls has seen; it does not influence *)
(*    the steps of run.                                                    *)
(***************************************************************************)
EXTENDS Integers, Sequences, FiniteSets, TLC

\* ---------------------------------------------------------------- bounds
MaxAttempts == 2
MaxRuns == 2
MaxNestedAttempts == 1
MaxConcAttempts == 1

DefaultMaxAiRetries == 3

\* ------------------------------------------------------------ value sets
\* the two run calls of a behaviour: in the nested scenario the outer call and
\* the call its default makes
Outer == 1
Inner == 2
Procs == {Outer, Inner}
Ids == {"X", "Y"}

NoText == "null"
EmptyText == ""
Absent == "undefined"
NonString == "nonstring"

DefaultText == "D"
PersistedText == "P"
GoodTexts == {"T1", "T2"}
BadSyntaxText == "S"
RaisingText == "R"
CorrectionTexts == GoodTexts \cup {BadSyntaxText, RaisingText}
ToolName == "propose_corrected_block"

\* typeof fnOrCode
FnTypes == {"function", "string", "other"}

\* --------------------------------------------------------------- errors
ErrObj(site, what, n) == [site |-> site, what |-> what, attempt |-> n]
Err(o, m) == [obj |-> o, message |-> m]
NoError == Err(ErrObj("none", "", 0), <<>>)

\* the fault raised by executed code itself
CodeFault(what, n) == Err(ErrObj("code", what, n), <<"fault of", what>>)

\* new Function(`return ${correctedCode}`)() of lines 175-179 and 272:
\* raises on a text that does not parse and on one whose evaluation raises
SyntaxOk(text) == text \notin {BadSyntaxText, RaisingText}

\* a text that new Function() can compile and that may run to completion
CanSucceed(text) == text \in GoodTexts \cup {PersistedText, DefaultText}

\* line 308: error.message = `Error executing function string for ID ...`
WrapFunctionString(e, id) ==
  [e EXCEPT !.message = <<"Error executing function string for ID", id>> \o e.message]

\* line 360: error.message = `Error executing code string via eval for ID ...`
WrapEval(e, id) ==
  [e EXCEPT !.message = <<"Error executing code string via eval for ID", id>> \o e.message]

\* RetryExhausted as if line 109 left the original error out
RetryExhausted_NoOriginal(id, last, orig, n) ==
  Err(ErrObj("pause:109", id, n),
      <<"Max AI retries reached for block ID", id, "Last AI error">> \o last.message)

\* line 109
RetryExhausted(id, last, orig, n) ==
  Err(ErrObj("pause:109", id, n),
      <<"Max AI retries reached for block ID", id, "Last AI error">>
        \o last.message \o <<"Original error">> \o orig.message)

IsRetryExhausted(e) == e.obj.site = "pause:109"

\* line 71
InvalidInput == Err(ErrObj("pause:71", "", 0), <<"Invalid type for fnOrCode">>)

\* ------------------------------------------------------ oracle responses
ArgsForms == {"object", "json", "badjson", "null"}

\* aiResponse: a tool call (its name, the form of its args, the fields of the
\* args object, whether the object has further fields), no tool call at all,
\* or invoke raising.  Args that are null or do not parse have no fields.
Responses ==
  {r \in [kind : {"tool"}, name : {ToolName, "other_tool"}, args : ArgsForms,
          block_id : Ids \cup {Absent},
          corrected_code : CorrectionTexts \cup {Absent, EmptyText, NonString},
          extra : BOOLEAN] :
     /\ r.args \in {"badjson", "null"} =>
          r.block_id = Absent /\ r.corrected_code = Absent /\ ~r.extra /\ r.name = ToolName
     /\ r.args = "json" => ~r.extra /\ r.name = ToolName}
  \cup
  [kind : {"throws", "notool"}, name : {""}, args : {"object"},
   block_id : {Absent}, corrected_code : {Absent}, extra : {FALSE}]

\* RejectSite without the tool name comparison of line 161
RejectSite_NoNameCheck(resp, id) ==
  IF resp.kind = "throws" THEN "invoke"
  ELSE IF resp.kind = "notool" THEN "pause:146"
  ELSE IF resp.args = "badjson" THEN "pause:157"
  ELSE IF resp.args = "null" THEN "pause:162"
  ELSE IF resp.block_id # id THEN "pause:169"
  ELSE IF resp.corrected_code \in {Absent, EmptyText, NonString} THEN "pause:172"
  ELSE IF ~SyntaxOk(resp.corrected_code) THEN "pause:178"
  ELSE ""

\* RejectSite without the block_id comparison of lines 168-170
RejectSite_NoIdCheck(resp, id) ==
  IF resp.kind = "throws" THEN "invoke"
  ELSE IF resp.kind = "notool" THEN "pause:146"
  ELSE IF resp.args = "badjson" THEN "pause:157"
  ELSE IF resp.name # ToolName \/ resp.args = "null" THEN "pause:162"
  ELSE IF resp.corrected_code \in {Absent, EmptyText, NonString} THEN "pause:172"
  ELSE IF ~SyntaxOk(resp.corrected_code) THEN "pause:178"
  ELSE ""

\* lines 145-180: "" when the response is accepted, else the line that throws
RejectSite(resp, id) ==
  IF resp.kind = "throws" THEN "invoke"
  ELSE IF resp.kind = "notool" THEN "pause:146"
  ELSE IF resp.args = "badjson" THEN "pause:157"
  ELSE IF resp.name # ToolName \/ resp.args = "null" THEN "pause:162"
  ELSE IF resp.block_id # id THEN "pause:169"
  ELSE IF resp.corrected_code \in {Absent, EmptyText, NonString} THEN "pause:172"
  ELSE IF ~SyntaxOk(resp.corrected_code) THEN "pause:178"
  ELSE ""

\* the response of the test's mock: a well-formed call whose code does not parse
IsInvalidSyntaxResponse(resp, id) ==
  /\ resp.kind = "tool" /\ resp.name = ToolName /\ resp.args \in {"object", "json"}
  /\ resp.block_id = id /\ resp.corrected_code = BadSyntaxText

\* ------------------------------------------------------------ constructor
Options ==
  [llm : BOOLEAN, apiKey : BOOLEAN, chatOpenAIFails : BOOLEAN,
   maxAiRetries : (0..MaxAttempts) \cup {-1},
   store : BOOLEAN]

\* lines 34-51
CtorLlm(o) == o.llm \/ (o.apiKey /\ ~o.chatOpenAIFails)

\* line 32 (-1 stands for an option that is not a number)
CtorMaxAiRetries(o) == IF o.maxAiRetries # -1 THEN o.maxAiRetries ELSE DefaultMaxAiRetries

VARIABLES llm, maxAiRetries, dbConfigured, store, calls, pc, run, obs

vars == <<llm, maxAiRetries, dbConfigured, store, calls, pc, run, obs>>

IdleRun ==
  [id |-> "X", fnType |-> "function", argsOk |-> TRUE,
   executionSource |-> "local", originalCodeString |-> Absent,
   savedFunctionString |-> Absent, error |-> NoError, attempt |-> 0,
   lastAiAttemptError |-> NoError, correctedCode |-> Absent,
   aiAttemptError |-> NoError,
   outcome |-> [type |-> "pending", value |-> Absent, error |-> NoError]]

\* the last response seen by an observer: whether it was a call of the
\* correction tool with an args object, whether it was a tool call echoing
\* another block_id than the run's, its code text, and whether it was
\* accepted with an args object that had fields besides block_id and
\* corrected_code
NoResp == [tool |-> FALSE, mismatch |-> FALSE, corrected_code |-> Absent,
           extra |-> FALSE]

\* the call before this one, when it was a repair at the first attempt: its id
\* and the text it saved, executed and returned the value of
NoPrev == [id |-> "", text |-> Absent]

\* what an observer of one run call has seen so far
IdleObs ==
  [oracleCalls |-> 0, saveCalls |-> 0, fetchCalls |-> 0,
   defaultExecuted |-> FALSE, lastSaved |-> Absent, lastExecuted |-> Absent,
   variantFault |-> NoError.obj, variantText |-> Absent,
   fetchFailed |-> FALSE, saveFailed |-> FALSE,
   requests |-> {}, onlyInvalidSyntax |-> TRUE,
   resp |-> NoResp, acceptedFirst |-> Absent, correctedFailed |-> FALSE,
   prev |-> NoPrev,
   storeAtStart |-> [i \in Ids |-> NoText]]

Init ==
  /\ \E o \in Options :
       /\ llm = CtorLlm(o)
       /\ maxAiRetries = CtorMaxAiRetries(o)
       /\ dbConfigured = o.store
       /\ store \in [Ids -> IF o.store THEN {NoText, EmptyText, PersistedText} ELSE {NoText}]
  /\ calls = 0
  /\ pc = [p \in Procs |-> "idle"]
  /\ run = [p \in Procs |-> IdleRun]
  /\ obs = [p \in Procs |-> IdleObs]

Returned(v) == [type |-> "return", value |-> v, error |-> NoError]
Thrown(e) == [type |-> "throw", value |-> Absent, error |-> e]

\* Truthy as if line 76 never took the persisted branch
Truthy_Never(s) == FALSE

\* Truthy as if line 76 compared savedFunctionString with null only
Truthy_NotNull(s) == s # NoText

\* line 76: if (savedFunctionString)
Truthy(s) == s \notin {NoText, EmptyText}

\* StoreAfterSave as if a save replaced the entry of every id
StoreAfterSave_AllKeys(st, id, code) == [i \in DOMAIN st |-> code]

\* the store after saveFunctionToDb(id, code) has completed
StoreAfterSave(st, id, code) == [st EXCEPT ![id] = code]

\* the run of p has ended as a repair of a failing default at the first attempt
RepairedAtFirst(p) ==
  /\ pc[p] = "done"
  /\ ~Truthy(obs[p].storeAtStart[run[p].id])
  /\ obs[p].variantText = DefaultText /\ obs[p].variantFault # NoError.obj
  /\ obs[p].acceptedFirst # Absent
  /\ ~obs[p].saveFailed /\ ~obs[p].correctedFailed

\* ValidType as if line 70 accepted every fnOrCode
ValidType_Any(t) == TRUE

\* line 70: typeof fnOrCode is 'function' or 'string'
ValidType(t) == t \in {"function", "string"}

\* lines 66-72: the call, up to the first await
Start(p) ==
  /\ pc[p] \in {"idle", "done"}
  /\ calls < MaxRuns
  /\ calls' = calls + 1
  /\ \E i \in Ids, t \in FnTypes, a \in BOOLEAN :
       /\ obs' = [obs EXCEPT ![p] =
            [IdleObs EXCEPT !.storeAtStart = store,
                            !.prev = IF RepairedAtFirst(p)
                                     THEN [id |-> run[p].id, text |-> obs[p].acceptedFirst]
                                     ELSE NoPrev]]
       /\ IF ~ValidType(t)
          THEN /\ run' = [run EXCEPT ![p] =
                    [IdleRun EXCEPT !.id = i, !.fnType = t, !.argsOk = a,
                                    !.outcome = Thrown(InvalidInput)]]
               /\ pc' = [pc EXCEPT ![p] = "done"]
          ELSE /\ run' = [run EXCEPT ![p] =
                    [IdleRun EXCEPT !.id = i, !.fnType = t, !.argsOk = a,
                                    !.originalCodeString = DefaultText]]
               /\ pc' = [pc EXCEPT ![p] = "fetch"]
  /\ UNCHANGED <<llm, maxAiRetries, dbConfigured, store>>

\* Fetch as if getFunctionFromDb answered with the entry of any id
Fetch_AnyEntry(p) ==
  /\ pc[p] = "fetch"
  /\ \/ /\ dbConfigured
        /\ run' = [run EXCEPT ![p].error =
                     Err(ErrObj("getFunctionFromDb", run[p].id, 0), <<"fetch failed">>)]
        /\ obs' = [obs EXCEPT ![p].fetchCalls = @ + 1, ![p].fetchFailed = TRUE]
        /\ pc' = [pc EXCEPT ![p] = "catch"]
     \/ \E i \in Ids :
        LET s == IF dbConfigured THEN store[i] ELSE NoText
        IN /\ obs' = [obs EXCEPT ![p].fetchCalls = @ + 1]
           /\ IF Truthy(s)
              THEN /\ run' = [run EXCEPT ![p].savedFunctionString = s,
                                         ![p].executionSource = "db"]
                   /\ pc' = [pc EXCEPT ![p] = "execDb"]
              ELSE /\ run' = [run EXCEPT ![p].savedFunctionString = s,
                                         ![p].executionSource = "local"]
                   /\ pc' = [pc EXCEPT ![p] = "execLocal"]
  /\ UNCHANGED <<llm, maxAiRetries, dbConfigured, store, calls>>

\* line 75: await this.getFunctionFromDb(id), and the branch of lines 76-88
Fetch(p) ==
  /\ pc[p] = "fetch"
  /\ \/ /\ dbConfigured
        /\ run' = [run EXCEPT ![p].error =
                     Err(ErrObj("getFunctionFromDb", run[p].id, 0), <<"fetch failed">>)]
        /\ obs' = [obs EXCEPT ![p].fetchCalls = @ + 1, ![p].fetchFailed = TRUE]
        /\ pc' = [pc EXCEPT ![p] = "catch"]
     \/ LET s == IF dbConfigured THEN store[run[p].id] ELSE NoText
        IN /\ obs' = [obs EXCEPT ![p].fetchCalls = @ + 1]
           /\ IF Truthy(s)
              THEN /\ run' = [run EXCEPT ![p].savedFunctionString = s,
                                         ![p].executionSource = "db"]
                   /\ pc' = [pc EXCEPT ![p] = "execDb"]
              ELSE /\ run' = [run EXCEPT ![p].savedFunctionString = s,
                                         ![p].executionSource = "local"]
                   /\ pc' = [pc EXCEPT ![p] = "execLocal"]
  /\ UNCHANGED <<llm, maxAiRetries, dbConfigured, store, calls>>

\* ExecDb as if line 79 awaited the execution without returning its value
ExecDb_NoReturn(p) ==
  /\ pc[p] = "execDb"
  /\ LET text == run[p].savedFunctionString
     IN \/ /\ CanSucceed(text)
           /\ run' = [run EXCEPT ![p].outcome = Returned(Absent)]
           /\ obs' = [obs EXCEPT ![p].lastExecuted = text, ![p].variantText = text]
           /\ pc' = [pc EXCEPT ![p] = "done"]
        \/ /\ run' = [run EXCEPT ![p].error =
                        WrapFunctionString(CodeFault(text, 0), run[p].id)]
           /\ obs' = [obs EXCEPT ![p].lastExecuted = text,
                                 ![p].variantFault = CodeFault(text, 0).obj,
                                 ![p].variantText = text]
           /\ pc' = [pc EXCEPT ![p] = "catch"]
  /\ UNCHANGED <<llm, maxAiRetries, dbConfigured, store, calls>>

\* line 79: return await this._executeFunctionString(savedFunctionString, id, ...args)
ExecDb(p) ==
  /\ pc[p] = "execDb"
  /\ LET text == run[p].savedFunctionString
     IN \/ /\ CanSucceed(text)
           /\ run' = [run EXCEPT ![p].outcome = Returned(text)]
           /\ obs' = [obs EXCEPT ![p].lastExecuted = text, ![p].variantText = text]
           /\ pc' = [pc EXCEPT ![p] = "done"]
        \/ /\ run' = [run EXCEPT ![p].error =
                        WrapFunctionString(CodeFault(text, 0), run[p].id)]
           /\ obs' = [obs EXCEPT ![p].lastExecuted = text,
                                 ![p].variantFault = CodeFault(text, 0).obj,
                                 ![p].variantText = text]
           /\ pc' = [pc EXCEPT ![p] = "catch"]
  /\ UNCHANGED <<llm, maxAiRetries, dbConfigured, store, calls>>

\* lines 83-87: the caller's default, called directly or through
\* _executeCodeStringViaEval
ExecLocal(p) ==
  /\ pc[p] = "execLocal"
  /\ \/ /\ run' = [run EXCEPT ![p].outcome = Returned(DefaultText)]
        /\ obs' = [obs EXCEPT ![p].defaultExecuted = TRUE,
                              ![p].lastExecuted = DefaultText,
                              ![p].variantText = DefaultText]
        /\ pc' = [pc EXCEPT ![p] = "done"]
     \/ /\ run' = [run EXCEPT ![p].error =
                     IF run[p].fnType = "function"
                     THEN CodeFault(DefaultText, 0)
                     ELSE WrapEval(CodeFault(DefaultText, 0), run[p].id)]
        /\ obs' = [obs EXCEPT ![p].defaultExecuted = TRUE,
                              ![p].lastExecuted = DefaultText,
                              ![p].variantFault = CodeFault(DefaultText, 0).obj,
                              ![p].variantText = DefaultText]
        /\ pc' = [pc EXCEPT ![p] = "catch"]
  /\ UNCHANGED <<llm, maxAiRetries, dbConfigured, store, calls>>

\* Catch as if line 115 raised a new Error built from the message
Catch_Rewrap(p) ==
  /\ pc[p] = "catch"
  /\ IF llm
     THEN /\ run' = [run EXCEPT ![p].attempt = 1, ![p].lastAiAttemptError = NoError]
          /\ pc' = [pc EXCEPT ![p] = "loop"]
     ELSE /\ run' = [run EXCEPT ![p].outcome =
                      Thrown(Err(ErrObj("pause:115", run[p].id, 0), run[p].error.message))]
          /\ pc' = [pc EXCEPT ![p] = "done"]
  /\ UNCHANGED <<llm, maxAiRetries, dbConfigured, store, calls, obs>>

\* Catch as if the loop of line 96 started with attempt = 0
Catch_FromZero(p) ==
  /\ pc[p] = "catch"
  /\ IF llm
     THEN /\ run' = [run EXCEPT ![p].attempt = 0, ![p].lastAiAttemptError = NoError]
          /\ pc' = [pc EXCEPT ![p] = "loop"]
     ELSE /\ run' = [run EXCEPT ![p].outcome = Thrown(run[p].error)]
          /\ pc' = [pc EXCEPT ![p] = "done"]
  /\ UNCHANGED <<llm, maxAiRetries, dbConfigured, store, calls, obs>>

\* lines 89-95 and 113-116: the catch block of run
Catch(p) ==
  /\ pc[p] = "catch"
  /\ IF llm
     THEN /\ run' = [run EXCEPT ![p].attempt = 1, ![p].lastAiAttemptError = NoError]
          /\ pc' = [pc EXCEPT ![p] = "loop"]
     ELSE /\ run' = [run EXCEPT ![p].outcome = Thrown(run[p].error)]
          /\ pc' = [pc EXCEPT ![p] = "done"]
  /\ UNCHANGED <<llm, maxAiRetries, dbConfigured, store, calls, obs>>

\* Loop as if line 98 passed the failure of the previous attempt to
\* _attemptAICorrection from the second attempt on
Loop_FromLastFailure(p) ==
  /\ pc[p] = "loop"
  /\ IF run[p].attempt > maxAiRetries
     THEN /\ run' = [run EXCEPT ![p].outcome = Returned(Absent)]
          /\ pc' = [pc EXCEPT ![p] = "done"]
          /\ obs' = obs
     ELSE IF ~run[p].argsOk
     THEN /\ run' = [run EXCEPT ![p].aiAttemptError =
                      Err(ErrObj("JSON.stringify", "args", run[p].attempt),
                          <<"Converting circular structure to JSON">>)]
          /\ pc' = [pc EXCEPT ![p] = "attemptCatch"]
          /\ obs' = obs
     ELSE /\ obs' = [obs EXCEPT ![p].oracleCalls = @ + 1,
                                ![p].requests = @ \cup
                                  {[id |-> run[p].id,
                                    originalCode |-> run[p].originalCodeString,
                                    error |-> IF run[p].attempt > 1
                                              THEN run[p].lastAiAttemptError.obj
                                              ELSE run[p].error.obj]}]
          /\ pc' = [pc EXCEPT ![p] = "oracle"]
          /\ run' = run
  /\ UNCHANGED <<llm, maxAiRetries, dbConfigured, store, calls>>

\* Loop as if the loop had no exit once attempt exceeds maxAiRetries
Loop_NoExit(p) ==
  /\ pc[p] = "loop"
  /\ run[p].attempt <= maxAiRetries
  /\ IF ~run[p].argsOk
     THEN /\ run' = [run EXCEPT ![p].aiAttemptError =
                      Err(ErrObj("JSON.stringify", "args", run[p].attempt),
                          <<"Converting circular structure to JSON">>)]
          /\ pc' = [pc EXCEPT ![p] = "attemptCatch"]
          /\ obs' = obs
     ELSE /\ obs' = [obs EXCEPT ![p].oracleCalls = @ + 1,
                                ![p].requests = @ \cup
                                  {[id |-> run[p].id,
                                    originalCode |-> run[p].originalCodeString,
                                    error |-> run[p].error.obj]}]
          /\ pc' = [pc EXCEPT ![p] = "oracle"]
          /\ run' = run
  /\ UNCHANGED <<llm, maxAiRetries, dbConfigured, store, calls>>

\* line 96 (the loop condition), line 98 and lines 134-142: the attempt up to
\* the await of llmWithTool.invoke; JSON.stringify(args) of line 200 raises on
\* arguments that cannot be serialized
Loop(p) ==
  /\ pc[p] = "loop"
  /\ IF run[p].attempt > maxAiRetries
     THEN /\ run' = [run EXCEPT ![p].outcome = Returned(Absent)]
          /\ pc' = [pc EXCEPT ![p] = "done"]
          /\ obs' = obs
     ELSE IF ~run[p].argsOk
     THEN /\ run' = [run EXCEPT ![p].aiAttemptError =
                      Err(ErrObj("JSON.stringify", "args", run[p].attempt),
                          <<"Converting circular structure to JSON">>)]
          /\ pc' = [pc EXCEPT ![p] = "attemptCatch"]
          /\ obs' = obs
     ELSE /\ obs' = [obs EXCEPT ![p].oracleCalls = @ + 1,
                                ![p].requests = @ \cup
                                  {[id |-> run[p].id,
                                    originalCode |-> run[p].originalCodeString,
                                    error |-> run[p].error.obj]}]
          /\ pc' = [pc EXCEPT ![p] = "oracle"]
          /\ run' = run
  /\ UNCHANGED <<llm, maxAiRetries, dbConfigured, store, calls>>

\* the message of the Error a rejected response is turned into
RejectMessage(site, resp, id) ==
  IF site = "pause:169"
  THEN <<"AI tool call had mismatched block_id. Expected", id, "got", resp.block_id>>
  ELSE IF site = "pause:178"
  THEN <<"AI proposed invalid JavaScript syntax", "Code", resp.corrected_code>>
  ELSE <<site>>

\* lines 142-180: the oracle's answer arrives and is validated
OracleRespond(p) ==
  /\ pc[p] = "oracle"
  /\ \E resp \in Responses :
       LET site == RejectSite(resp, run[p].id)
       IN /\ obs' = [obs EXCEPT
                   ![p].onlyInvalidSyntax = @ /\ IsInvalidSyntaxResponse(resp, run[p].id),
                   ![p].resp = [tool |-> resp.kind = "tool" /\ resp.name = ToolName
                                          /\ resp.args \in {"object", "json"},
                                mismatch |-> resp.kind = "tool" /\ resp.block_id # run[p].id,
                                corrected_code |-> resp.corrected_code,
                                extra |-> site = "" /\ resp.extra],
                   ![p].acceptedFirst = IF site = "" /\ run[p].attempt = 1
                                        THEN resp.corrected_code ELSE @]
          /\ IF site = ""
             THEN /\ run' = [run EXCEPT ![p].correctedCode = resp.corrected_code]
                  /\ pc' = [pc EXCEPT ![p] = "save"]
             ELSE /\ run' = [run EXCEPT ![p].aiAttemptError =
                              Err(ErrObj(site, "", run[p].attempt),
                                  RejectMessage(site, resp, run[p].id))]
                  /\ pc' = [pc EXCEPT ![p] = "attemptCatch"]
  /\ UNCHANGED <<llm, maxAiRetries, dbConfigured, store, calls>>

\* SaveArgs as if line 100 saved the original code string
SaveArgs_Original(p) == [id |-> run[p].id, code |-> run[p].originalCodeString]

\* line 100: the arguments of saveFunctionToDb
SaveArgs(p) == [id |-> run[p].id, code |-> run[p].correctedCode]

\* Save as if a failure of saveFunctionToDb were caught and ignored
Save_IgnoreFailure(p) ==
  /\ pc[p] = "save"
  /\ \/ /\ dbConfigured
        /\ obs' = [obs EXCEPT ![p].saveCalls = @ + 1, ![p].saveFailed = TRUE]
        /\ store' = store
     \/ /\ store' = IF dbConfigured
                     THEN StoreAfterSave(store, SaveArgs(p).id, SaveArgs(p).code)
                     ELSE store
        /\ obs' = [obs EXCEPT ![p].saveCalls = @ + 1,
                              ![p].lastSaved = SaveArgs(p).code]
  /\ pc' = [pc EXCEPT ![p] = "execCorrected"]
  /\ run' = run
  /\ UNCHANGED <<llm, maxAiRetries, dbConfigured, calls>>

\* line 100: await this.saveFunctionToDb(id, correctedCode)
Save(p) ==
  /\ pc[p] = "save"
  /\ \/ /\ dbConfigured
        /\ run' = [run EXCEPT ![p].aiAttemptError =
                     Err(ErrObj("saveFunctionToDb", run[p].id, run[p].attempt),
                         <<"save failed">>)]
        /\ obs' = [obs EXCEPT ![p].saveCalls = @ + 1, ![p].saveFailed = TRUE]
        /\ pc' = [pc EXCEPT ![p] = "attemptCatch"]
        /\ store' = store
     \/ /\ store' = IF dbConfigured
                     THEN StoreAfterSave(store, SaveArgs(p).id, SaveArgs(p).code)
                     ELSE store
        /\ obs' = [obs EXCEPT ![p].saveCalls = @ + 1,
                              ![p].lastSaved = SaveArgs(p).code]
        /\ pc' = [pc EXCEPT ![p] = "execCorrected"]
        /\ run' = run
  /\ UNCHANGED <<llm, maxAiRetries, dbConfigured, calls>>

\* CorrectedToRun as if line 103 executed the persisted text again
CorrectedToRun_Persisted(p) == run[p].savedFunctionString

\* line 103: the code string passed to _executeFunctionString
CorrectedToRun(p) == run[p].correctedCode

\* ExecCorrected as if line 103 executed the text the store holds for id
ExecCorrected_FromStore(p) ==
  /\ pc[p] = "execCorrected"
  /\ LET text == store[run[p].id]
     IN \/ /\ CanSucceed(text)
           /\ run' = [run EXCEPT ![p].outcome = Returned(text)]
           /\ obs' = [obs EXCEPT ![p].lastExecuted = text]
           /\ pc' = [pc EXCEPT ![p] = "done"]
        \/ /\ run' = [run EXCEPT ![p].aiAttemptError =
                        WrapFunctionString(CodeFault(text, run[p].attempt), run[p].id)]
           /\ obs' = [obs EXCEPT ![p].lastExecuted = text, ![p].correctedFailed = TRUE]
           /\ pc' = [pc EXCEPT ![p] = "attemptCatch"]
  /\ UNCHANGED <<llm, maxAiRetries, dbConfigured, store, calls>>

\* line 103: return await this._executeFunctionString(correctedCode, id, ...args)
ExecCorrected(p) ==
  /\ pc[p] = "execCorrected"
  /\ LET text == CorrectedToRun(p)
     IN \/ /\ CanSucceed(text)
           /\ run' = [run EXCEPT ![p].outcome = Returned(text)]
           /\ obs' = [obs EXCEPT ![p].lastExecuted = text]
           /\ pc' = [pc EXCEPT ![p] = "done"]
        \/ /\ run' = [run EXCEPT ![p].aiAttemptError =
                        WrapFunctionString(CodeFault(text, run[p].attempt), run[p].id)]
           /\ obs' = [obs EXCEPT ![p].lastExecuted = text, ![p].correctedFailed = TRUE]
           /\ pc' = [pc EXCEPT ![p] = "attemptCatch"]
  /\ UNCHANGED <<llm, maxAiRetries, dbConfigured, store, calls>>

\* AttemptCatch as if a failed attempt were followed by executing the variant
\* of lines 79-86 again
AttemptCatch_Reexecute(p) ==
  /\ pc[p] = "attemptCatch"
  /\ IF run[p].attempt = maxAiRetries
     THEN /\ run' = [run EXCEPT
                  ![p].lastAiAttemptError = run[p].aiAttemptError,
                  ![p].aiAttemptError = NoError, ![p].correctedCode = Absent,
                  ![p].outcome = Thrown(RetryExhausted(run[p].id, run[p].aiAttemptError,
                                                       run[p].error, run[p].attempt))]
          /\ pc' = [pc EXCEPT ![p] = "done"]
     ELSE /\ run' = [run EXCEPT ![p].lastAiAttemptError = run[p].aiAttemptError,
                                ![p].aiAttemptError = NoError,
                                ![p].correctedCode = Absent,
                                ![p].attempt = @ + 1]
          /\ pc' = [pc EXCEPT ![p] = IF run[p].executionSource = "db"
                                     THEN "execDb" ELSE "execLocal"]
  /\ obs' = [obs EXCEPT ![p].resp = NoResp]
  /\ UNCHANGED <<llm, maxAiRetries, dbConfigured, store, calls>>

\* AttemptCatch as if a failed attempt put back the entry the id had when the
\* run started
AttemptCatch_Rollback(p) ==
  /\ pc[p] = "attemptCatch"
  /\ IF run[p].attempt = maxAiRetries
     THEN /\ run' = [run EXCEPT
                  ![p].lastAiAttemptError = run[p].aiAttemptError,
                  ![p].aiAttemptError = NoError, ![p].correctedCode = Absent,
                  ![p].outcome = Thrown(RetryExhausted(run[p].id, run[p].aiAttemptError,
                                                       run[p].error, run[p].attempt))]
          /\ pc' = [pc EXCEPT ![p] = "done"]
     ELSE /\ run' = [run EXCEPT ![p].lastAiAttemptError = run[p].aiAttemptError,
                                ![p].aiAttemptError = NoError,
                                ![p].correctedCode = Absent,
                                ![p].attempt = @ + 1]
          /\ pc' = [pc EXCEPT ![p] = "loop"]
  /\ obs' = [obs EXCEPT ![p].resp = NoResp]
  /\ store' = [store EXCEPT ![run[p].id] = obs[p].storeAtStart[run[p].id]]
  /\ UNCHANGED <<llm, maxAiRetries, dbConfigured, calls>>

\* lines 104-111: the catch block of one attempt
AttemptCatch(p) ==
  /\ pc[p] = "attemptCatch"
  /\ IF run[p].attempt = maxAiRetries
     THEN /\ run' = [run EXCEPT
                  ![p].lastAiAttemptError = run[p].aiAttemptError,
                  ![p].aiAttemptError = NoError, ![p].correctedCode = Absent,
                  ![p].outcome = Thrown(RetryExhausted(run[p].id, run[p].aiAttemptError,
                                                       run[p].error, run[p].attempt))]
          /\ pc' = [pc EXCEPT ![p] = "done"]
     ELSE /\ run' = [run EXCEPT ![p].lastAiAttemptError = run[p].aiAttemptError,
                                ![p].aiAttemptError = NoError,
                                ![p].correctedCode = Absent,
                                ![p].attempt = @ + 1]
          /\ pc' = [pc EXCEPT ![p] = "loop"]
  /\ obs' = [obs EXCEPT ![p].resp = NoResp]
  /\ UNCHANGED <<llm, maxAiRetries, dbConfigured, store, calls>>

Step(p) ==
  \/ Start(p)
  \/ Fetch(p)
  \/ ExecDb(p)
  \/ ExecLocal(p)
  \/ Catch(p)
  \/ Loop(p)
  \/ OracleRespond(p)
  \/ Save(p)
  \/ ExecCorrected(p)
  \/ AttemptCatch(p)

Next == Step(Outer)

Spec == Init /\ [][Next]_vars

\* ---- nested calls: the default of the outer call is a function that itself
\* ---- calls run with another id (tests/pause.test.js 50-72, README 108-130)
StartOuter ==
  /\ pc[Outer] = "idle"
  /\ Start(Outer)
  /\ run'[Outer].fnType = "function"

\* line 84 of the outer call, up to the await inside the default: the default
\* starts executing and calls run(innerId, ...), lines 66-72 of the inner call
CallInner ==
  /\ pc[Outer] = "execLocal" /\ pc[Inner] = "idle"
  /\ calls' = calls + 1
  /\ \E i \in Ids \ {run[Outer].id}, t \in FnTypes, a \in BOOLEAN :
       /\ obs' = [obs EXCEPT ![Outer].defaultExecuted = TRUE,
                             ![Outer].lastExecuted = DefaultText,
                             ![Inner] = [IdleObs EXCEPT !.storeAtStart = store]]
       /\ IF ~ValidType(t)
          THEN /\ run' = [run EXCEPT ![Inner] =
                    [IdleRun EXCEPT !.id = i, !.fnType = t, !.argsOk = a,
                                    !.outcome = Thrown(InvalidInput)]]
               /\ pc' = [pc EXCEPT ![Outer] = "awaitInner", ![Inner] = "done"]
          ELSE /\ run' = [run EXCEPT ![Inner] =
                    [IdleRun EXCEPT !.id = i, !.fnType = t, !.argsOk = a,
                                    !.originalCodeString = DefaultText]]
               /\ pc' = [pc EXCEPT ![Outer] = "awaitInner", ![Inner] = "fetch"]
  /\ UNCHANGED <<llm, maxAiRetries, dbConfigured, store>>

\* line 84 of the outer call, from the await inside the default on: the inner
\* promise has settled; a rejection propagates out of the default unchanged, a
\* value lets the default go on and return or fail by itself
ReturnInner ==
  /\ pc[Outer] = "awaitInner" /\ pc[Inner] = "done"
  /\ IF run[Inner].outcome.type = "throw"
     THEN /\ run' = [run EXCEPT ![Outer].error = run[Inner].outcome.error]
          /\ obs' = [obs EXCEPT ![Outer].variantFault = run[Inner].outcome.error.obj,
                                ![Outer].variantText = DefaultText]
          /\ pc' = [pc EXCEPT ![Outer] = "catch"]
     ELSE \/ /\ run' = [run EXCEPT ![Outer].outcome = Returned(DefaultText)]
             /\ obs' = [obs EXCEPT ![Outer].variantText = DefaultText]
             /\ pc' = [pc EXCEPT ![Outer] = "done"]
          \/ /\ run' = [run EXCEPT ![Outer].error = CodeFault(DefaultText, 0)]
             /\ obs' = [obs EXCEPT ![Outer].variantFault = CodeFault(DefaultText, 0).obj,
                                   ![Outer].variantText = DefaultText]
             /\ pc' = [pc EXCEPT ![Outer] = "catch"]
  /\ UNCHANGED <<llm, maxAiRetries, dbConfigured, store, calls>>

NextNested ==
  \/ StartOuter
  \/ Fetch(Outer)
  \/ ExecDb(Outer)
  \/ CallInner
  \/ ReturnInner
  \/ Catch(Outer)
  \/ Loop(Outer)
  \/ OracleRespond(Outer)
  \/ Save(Outer)
  \/ ExecCorrected(Outer)
  \/ AttemptCatch(Outer)
  \/ Fetch(Inner)
  \/ ExecDb(Inner)
  \/ ExecLocal(Inner)
  \/ Catch(Inner)
  \/ Loop(Inner)
  \/ OracleRespond(Inner)
  \/ Save(Inner)
  \/ ExecCorrected(Inner)
  \/ AttemptCatch(Inner)

\* the instance of the nested scenario: constructed as in Init, with at most
\* MaxNestedAttempts attempts per repair
InitNested == Init /\ maxAiRetries <= MaxNestedAttempts

SpecNested == InitNested /\ [][NextNested]_vars

\* ------------------------------------------------------------------ claims
Failed(p) == obs[p].variantFault # NoError.obj

\* C1 - Override invariant: in a run whose fetch returned non-empty text the
\* caller's default is never executed, whatever happens afterwards.
Thm_C1 ==
  \A p \in Procs :
    run[p].savedFunctionString \notin {Absent, NoText, EmptyText} => ~obs[p].defaultExecuted

\* the persisted text ran, failed, was repaired, and the run returned
Witness_C1 ==
  \E p \in Procs :
    /\ pc[p] = "done" /\ run[p].savedFunctionString = PersistedText
    /\ Failed(p) /\ run[p].outcome.type = "return"

\* C2 - No-oracle passthrough: without an llm a failure of the selected
\* variant is raised as the very same object; the oracle is not invoked, save
\* is not called and the store is unchanged.
Thm_C2 ==
  \A p \in Procs :
    (~llm /\ Failed(p)) =>
      /\ obs[p].oracleCalls = 0 /\ obs[p].saveCalls = 0
      /\ store = obs[p].storeAtStart
      /\ pc[p] = "done" =>
           run[p].outcome.type = "throw" /\ run[p].outcome.error.obj = obs[p].variantFault

\* a persisted text failed without llm and run has raised
Witness_C2 ==
  \E p \in Procs :
    /\ ~llm /\ pc[p] = "done" /\ obs[p].variantText = PersistedText
    /\ Failed(p) /\ run[p].outcome.type = "throw"

\* C3 - Bounded retries: with maxAiRetries = N >= 1, a failing variant and an
\* oracle that answers every request with code that does not parse, the oracle
\* is invoked exactly N times, save is never called and run raises the
\* retry-exhausted failure.
Cex_C3 ==
  \A p \in Procs :
    (pc[p] = "done" /\ llm /\ maxAiRetries >= 1 /\ Failed(p) /\ obs[p].onlyInvalidSyntax) =>
      /\ obs[p].oracleCalls = maxAiRetries
      /\ obs[p].saveCalls = 0
      /\ run[p].outcome.type = "throw" /\ IsRetryExhausted(run[p].outcome.error)

\* C4 - Identifier binding: a response echoing another block_id than the
\* run's id is rejected; its code is neither saved nor executed, and the
\* attempt is used up: the next attempt starts or the run is exhausted.
Thm_C4 ==
  [][\A p \in Procs :
       /\ (pc[p] = "oracle" /\ obs'[p].resp.mismatch) =>
            /\ pc'[p] = "attemptCatch"
            /\ store' = store
            /\ obs'[p].saveCalls = obs[p].saveCalls
            /\ obs'[p].lastExecuted = obs[p].lastExecuted
       /\ (pc[p] = "attemptCatch" /\ obs[p].resp.mismatch) =>
            /\ store' = store
            /\ obs'[p].saveCalls = obs[p].saveCalls
            /\ obs'[p].lastExecuted = obs[p].lastExecuted
            /\ obs'[p].oracleCalls = obs[p].oracleCalls
            /\ \/ /\ run[p].attempt < maxAiRetries
                  /\ pc'[p] = "loop" /\ run'[p].attempt = run[p].attempt + 1
               \/ /\ run[p].attempt = maxAiRetries
                  /\ pc'[p] = "done" /\ IsRetryExhausted(run'[p].outcome.error)]_vars

\* a response with valid code for another id has just been rejected
Witness_C4 ==
  \E p \in Procs :
    /\ pc[p] = "attemptCatch" /\ obs[p].resp.mismatch
    /\ obs[p].resp.corrected_code \in GoodTexts
    /\ run[p].aiAttemptError.obj.site = "pause:169"

\* C5 - Round trip: with no entry for X, a failing default and an oracle
\* whose first answer is valid text T (T saved and run without failure), run
\* invokes the oracle once, saves T under X and returns the value of T; the
\* next run for X, with any function or text as default, fetches T, executes
\* T and not the default, and if T succeeds the oracle is not invoked.
Thm_C5 ==
  \A p \in Procs :
    /\ ( /\ pc[p] = "done"
         /\ obs[p].storeAtStart[run[p].id] \in {NoText, EmptyText}
         /\ obs[p].variantText = DefaultText /\ Failed(p)
         /\ obs[p].acceptedFirst # Absent
         /\ ~obs[p].saveFailed /\ ~obs[p].correctedFailed ) =>
           /\ obs[p].oracleCalls = 1
           /\ obs[p].saveCalls = 1 /\ obs[p].lastSaved = obs[p].acceptedFirst
           /\ dbConfigured => store[run[p].id] = obs[p].acceptedFirst
           /\ run[p].outcome = Returned(obs[p].acceptedFirst)
    /\ ( /\ obs[p].prev.text # Absent /\ obs[p].prev.id = run[p].id
         /\ dbConfigured /\ obs[p].fetchCalls = 1 /\ ~obs[p].fetchFailed ) =>
           /\ run[p].savedFunctionString = obs[p].prev.text
           /\ ~obs[p].defaultExecuted
           /\ pc[p] # "execDb" => obs[p].variantText = obs[p].prev.text
           /\ (pc[p] = "done" /\ ~Failed(p)) =>
                obs[p].oracleCalls = 0 /\ run[p].outcome = Returned(obs[p].prev.text)

\* the second run for the id repaired by the first has returned T's value
Witness_C5 ==
  \E p \in Procs :
    /\ pc[p] = "done" /\ obs[p].prev.text \in GoodTexts /\ obs[p].prev.id = run[p].id
    /\ run[p].outcome = Returned(obs[p].prev.text) /\ obs[p].oracleCalls = 0

\* C6 - Persist before execute: a corrected text is executed only after the
\* save of that same text under the run's id has completed.
Thm_C6 ==
  \A p \in Procs :
    pc[p] = "execCorrected" =>
      /\ obs[p].lastSaved = run[p].correctedCode
      /\ obs[p].saveCalls >= 1
      /\ dbConfigured => store[run[p].id] = run[p].correctedCode

\* a second correction is about to run after an earlier save had failed
Witness_C6 ==
  \E p \in Procs :
    /\ pc[p] = "execCorrected" /\ obs[p].saveFailed /\ obs[p].saveCalls = 2
    /\ store[run[p].id] = run[p].correctedCode

\* C7 - a failure of save is not absorbed by the repair loop: run raises the
\* save failure at once, issues no further oracle request, and the failure
\* raised is not the retry-exhausted one.
Cex_C7 ==
  \A p \in Procs :
    (Failed(p) /\ obs[p].saveFailed) =>
      /\ pc[p] \notin {"loop", "oracle", "save", "execCorrected"}
      /\ pc[p] = "done" =>
           /\ run[p].outcome.type = "throw"
           /\ run[p].outcome.error.obj.site = "saveFunctionToDb"

\* C8 - a failure of fetch propagates: run raises it, the oracle is not
\* invoked and save is not called, also when an oracle is configured.
Cex_C8 ==
  \A p \in Procs :
    obs[p].fetchFailed =>
      /\ obs[p].oracleCalls = 0 /\ obs[p].saveCalls = 0
      /\ pc[p] = "done" =>
           /\ run[p].outcome.type = "throw"
           /\ run[p].outcome.error.obj.site = "getFunctionFromDb"

\* C9 - the original-code field of every correction request is the text of
\* the variant whose execution failed in this run: the persisted text when the
\* store had an entry, the default's text otherwise.
Cex_C9 ==
  \A p \in Procs :
    Failed(p) => \A r \in obs[p].requests : r.originalCode = obs[p].variantText

\* C10 - no failure is swallowed: with an oracle configured and any
\* maxAiRetries, a run whose variant failed ends by returning the value of an
\* executed correction or by raising.
Cex_C10 ==
  \A p \in Procs :
    (llm /\ pc[p] = "done" /\ Failed(p)) =>
      \/ run[p].outcome.type = "throw"
      \/ /\ run[p].outcome.type = "return"
         /\ run[p].outcome.value \in GoodTexts
         /\ run[p].outcome.value = obs[p].lastSaved

\* sub occurs in s as a run of consecutive elements
Contains(s, sub) ==
  \E i \in 0..(Len(s) - Len(sub)) :
    \A j \in 1..Len(sub) : s[i + j] = sub[j]

\* C11 - a failure of the persisted text is repaired like one of the default:
\* when the oracle's answer T is accepted, the save writes T under id over
\* the failing entry, the run returns the value of executing T, and the
\* default is not executed.
Thm_C11 ==
  [][\A p \in Procs :
       (run[p].executionSource = "db" /\ Failed(p)) =>
         /\ ~obs[p].defaultExecuted /\ ~obs'[p].defaultExecuted
         /\ (pc[p] = "save" /\ pc'[p] = "execCorrected") =>
              /\ obs[p].lastSaved = Absent => store[run[p].id] = run[p].savedFunctionString
              /\ store' = [store EXCEPT ![run[p].id] = obs[p].resp.corrected_code]
         /\ (pc[p] = "execCorrected" /\ pc'[p] = "done") =>
              /\ run'[p].outcome = Returned(obs[p].resp.corrected_code)
              /\ store[run[p].id] = obs[p].resp.corrected_code]_vars

\* the persisted text failed and the run returned the value of correction T1,
\* which has replaced the entry
Witness_C11 ==
  \E p \in Procs :
    /\ pc[p] = "done" /\ obs[p].variantText = PersistedText /\ Failed(p)
    /\ run[p].outcome = Returned("T1") /\ store[run[p].id] = "T1"
    /\ obs[p].storeAtStart[run[p].id] = PersistedText

\* C14 - Invalid input: when fnOrCode is neither a function nor a string run
\* raises at once; the store is not fetched, nothing is executed, the oracle
\* is not invoked and save is not called, whatever the store holds.
Thm_C14 ==
  \A p \in Procs :
    (pc[p] # "idle" /\ run[p].fnType \notin {"function", "string"}) =>
      /\ pc[p] = "done"
      /\ run[p].outcome = Thrown(InvalidInput)
      /\ obs[p].fetchCalls = 0 /\ obs[p].lastExecuted = Absent
      /\ obs[p].oracleCalls = 0 /\ obs[p].saveCalls = 0
      /\ store = obs[p].storeAtStart

\* an invalid default was passed for an id that has a persisted entry
Witness_C14 ==
  \E p \in Procs :
    /\ pc[p] = "done" /\ run[p].fnType = "other"
    /\ store[run[p].id] = PersistedText /\ llm

\* C15 - Exhaustion aggregates both causes: the retry-exhausted failure is
\* raised at attempt maxAiRetries, and its message names the run's id and
\* contains the message of that attempt's failure and the message of the
\* failure of the variant executed first in the run.
Thm_C15 ==
  [][\A p \in Procs :
       (pc[p] # "done" /\ pc'[p] = "done" /\ Failed(p)
          /\ IsRetryExhausted(run'[p].outcome.error)) =>
         LET m == run'[p].outcome.error.message
         IN /\ run[p].attempt = maxAiRetries
            /\ run'[p].outcome.type = "throw"
            /\ Contains(m, <<run[p].id>>)
            /\ run[p].aiAttemptError # NoError
            /\ Contains(m, run[p].aiAttemptError.message)
            /\ run[p].error.obj = obs[p].variantFault
            /\ Contains(m, run[p].error.message)
            /\ Contains(m, <<"fault of", obs[p].variantText>>)]_vars

\* exhaustion after two attempts, the last of which failed for another reason
\* than the first
Witness_C15 ==
  \E p \in Procs :
    /\ pc[p] = "done" /\ Failed(p) /\ IsRetryExhausted(run[p].outcome.error)
    /\ maxAiRetries = 2 /\ obs[p].saveFailed
    /\ run[p].lastAiAttemptError.obj.site = "pause:178"

\* C16 - Success leaves everything unchanged: when the selected variant runs
\* without failure, run returns its value, the oracle is not invoked, save is
\* not called and the store is as it was before the call.
Thm_C16 ==
  \A p \in Procs :
    (pc[p] = "done" /\ obs[p].variantText # Absent /\ ~Failed(p)) =>
      /\ run[p].outcome = Returned(obs[p].variantText)
      /\ obs[p].oracleCalls = 0 /\ obs[p].saveCalls = 0
      /\ store = obs[p].storeAtStart

\* a persisted text ran without failure, with an oracle configured
Witness_C16 ==
  \E p \in Procs :
    /\ pc[p] = "done" /\ llm /\ obs[p].variantText = PersistedText /\ ~Failed(p)
    /\ run[p].outcome.type = "return"

\* C17 - Only validated corrections reach the store: save is called, and the
\* store written, only with the corrected_code of the last response of the
\* run, which called propose_corrected_block, echoed the run's id, and whose
\* code is a non-empty string that passed the syntax check; the write is to
\* the run's id.
Thm_C17 ==
  [][/\ \A p \in Procs :
          obs'[p].saveCalls > obs[p].saveCalls =>
            /\ obs[p].resp.tool /\ ~obs[p].resp.mismatch
            /\ obs[p].resp.corrected_code \in GoodTexts
            /\ \/ store' = store
               \/ store' = [store EXCEPT ![run[p].id] = obs[p].resp.corrected_code]
            /\ obs'[p].lastSaved \in {obs[p].lastSaved, obs[p].resp.corrected_code}
     /\ store' # store =>
          \E p \in Procs : obs'[p].saveCalls > obs[p].saveCalls]_vars

\* a correction has been written over a persisted entry
Witness_C17 ==
  \E p \in Procs :
    /\ pc[p] = "execCorrected" /\ obs[p].storeAtStart[run[p].id] = PersistedText
    /\ store[run[p].id] = "T2" /\ obs[p].resp.corrected_code = "T2"

\* C20 - an accepted correction ends the repair loop: once a response has
\* passed validation (save has been called with it) no further oracle
\* request is issued in that run, whatever the save and the execution of the
\* corrected text do.
Cex_C20 ==
  [][\A p \in Procs :
       (pc[p] \notin {"idle", "done"} /\ Failed(p)
          /\ (pc[p] = "save" \/ obs[p].saveCalls >= 1)) =>
         obs'[p].oracleCalls = obs[p].oracleCalls]_vars

\* ---- concurrent calls: two run calls on one instance, each suspended at its
\* ---- awaits (lines 75, 79, 84, 86, 98, 100, 103) while the other one steps
StartConc(p) ==
  /\ pc[p] = "idle"
  /\ Start(p)
  /\ run'[p].fnType = "function" /\ run'[p].argsOk

\* lines 142-180 with an oracle that answers every request with a call of the
\* correction tool echoing the id it was asked about
OracleRespondConc(p) ==
  /\ OracleRespond(p)
  /\ obs'[p].resp.tool /\ ~obs'[p].resp.mismatch
  /\ obs'[p].resp.corrected_code \in GoodTexts \cup {BadSyntaxText}

StepConc(p) ==
  \/ StartConc(p)
  \/ Fetch(p)
  \/ ExecDb(p)
  \/ ExecLocal(p)
  \/ Catch(p)
  \/ Loop(p)
  \/ OracleRespondConc(p)
  \/ Save(p)
  \/ ExecCorrected(p)
  \/ AttemptCatch(p)

NextConc == \E p \in Procs : StepConc(p)

\* the instance of the concurrent scenario: constructed as in Init, with at most
\* MaxConcAttempts attempts per repair
InitConc ==
  /\ Init
  /\ llm /\ dbConfigured /\ maxAiRetries <= MaxConcAttempts
  /\ store \in [Ids -> {NoText, PersistedText}]

SpecConc == InitConc /\ [][NextConc]_vars

\* the inner call failed in its code and was repaired: it returned the value of
\* an accepted correction
InnerRepaired ==
  /\ pc[Inner] = "done" /\ Failed(Inner)
  /\ run[Inner].outcome.type = "return"
  /\ run[Inner].outcome.value \in GoodTexts

\* the outer call has ended and the code of its default succeeded
OuterSucceeded ==
  /\ pc[Outer] = "done" /\ obs[Outer].defaultExecuted /\ ~Failed(Outer)

\* C12: when the default of an outer call runs an inner call with another id,
\* the inner call fails and is repaired, and the outer code then succeeds, the
\* store differs from the store at the start of the outer call at most in the
\* entry of the inner id, which holds the text the inner call saved; the outer
\* call issued no oracle request and no save, and every oracle request of the
\* inner call carries the inner id
Thm_C12 ==
  (OuterSucceeded /\ InnerRepaired) =>
    /\ run[Inner].id # run[Outer].id
    /\ store[run[Outer].id] = obs[Outer].storeAtStart[run[Outer].id]
    /\ store = IF dbConfigured
               THEN [obs[Outer].storeAtStart EXCEPT ![run[Inner].id] = obs[Inner].lastSaved]
               ELSE obs[Outer].storeAtStart
    /\ obs[Inner].lastSaved = run[Inner].outcome.value
    /\ obs[Outer].oracleCalls = 0 /\ obs[Outer].saveCalls = 0
    /\ obs[Outer].requests = {}
    /\ \A r \in obs[Inner].requests : r.id = run[Inner].id
    /\ run[Outer].outcome = Returned(DefaultText)

Witness_C12 ==
  /\ OuterSucceeded /\ InnerRepaired
  /\ dbConfigured
  /\ store[run[Inner].id] \in GoodTexts
  /\ store[run[Inner].id] # obs[Outer].storeAtStart[run[Inner].id]
  /\ obs[Inner].oracleCalls = 1 /\ obs[Inner].saveCalls = 1

\* C13: when the inner call ends by raising after its code failed (with
\* arguments that can be serialized), and that
\* failure propagates out of the outer default, the outer call issues no oracle
\* request and no save
Cex_C13 ==
  (/\ pc[Outer] \notin {"idle", "fetch", "execLocal", "awaitInner"}
   /\ pc[Inner] = "done" /\ Failed(Inner) /\ run[Inner].argsOk
   /\ run[Inner].outcome.type = "throw"
   /\ run[Outer].error = run[Inner].outcome.error) =>
    obs[Outer].oracleCalls = 0 /\ obs[Outer].saveCalls = 0

\* the other one of the two calls
Other(p) == CHOOSE q \in Procs : q # p

\* both calls have started, with distinct ids
DistinctIds == pc[Outer] # "idle" /\ pc[Inner] # "idle" /\ run[Outer].id # run[Inner].id

\* both calls have started, with the same id
SharedId == pc[Outer] # "idle" /\ pc[Inner] # "idle" /\ run[Outer].id = run[Inner].id

\* the call of p has ended by returning the value of an accepted correction
\* after its code failed
Repaired(p) ==
  /\ pc[p] = "done" /\ Failed(p)
  /\ run[p].outcome.type = "return" /\ run[p].outcome.value \in GoodTexts

\* C18: for two interleaved calls with distinct ids, each call sees and leaves
\* what it would alone: the text it fetched is the entry its id had when it
\* started, its id's entry holds the text it saved last (the entry at its start
\* when it saved nothing), it returns the value of the text it executed last,
\* and a step of the other call changes neither its frame nor its id's entry;
\* a step of the call writes no entry but its id's
Thm_C18 ==
  /\ [](DistinctIds =>
        \A p \in Procs :
          /\ (pc[p] # "fetch" /\ ~obs[p].fetchFailed) =>
               run[p].savedFunctionString = obs[p].storeAtStart[run[p].id]
          /\ store[run[p].id] = IF obs[p].lastSaved # Absent
                                THEN obs[p].lastSaved
                                ELSE obs[p].storeAtStart[run[p].id]
          /\ (pc[p] = "done" /\ run[p].outcome.type = "return" /\ maxAiRetries > 0) =>
               run[p].outcome.value = obs[p].lastExecuted)
  /\ [][DistinctIds =>
        \A p \in Procs :
          LET q == Other(p)
          IN <<pc[q], run[q], obs[q]>>' # <<pc[q], run[q], obs[q]>> =>
               /\ <<pc[p], run[p], obs[p]>>' = <<pc[p], run[p], obs[p]>>
               /\ store'[run[p].id] = store[run[p].id]
               /\ \A i \in Ids \ {run[q].id} : store'[i] = store[i]]_vars

Witness_C18 ==
  /\ DistinctIds
  /\ Repaired(Outer) /\ Repaired(Inner)
  /\ store[run[Outer].id] = run[Outer].outcome.value
  /\ store[run[Inner].id] = run[Inner].outcome.value
  /\ run[Outer].outcome.value # run[Inner].outcome.value

\* C19: for two interleaved calls with the same id, each call executes the text
\* of the answer it accepted itself and returns its value, whatever the store
\* holds for the id; when both end repaired, the entry of the id is the text
\* accepted by one of them
Thm_C19 ==
  /\ [][SharedId =>
        \A p \in Procs :
          (pc[p] = "execCorrected" /\ pc'[p] # "execCorrected") =>
            /\ obs'[p].lastExecuted = obs[p].resp.corrected_code
            /\ pc'[p] = "done" => run'[p].outcome = Returned(obs[p].resp.corrected_code)]_vars
  /\ []((SharedId /\ Repaired(Outer) /\ Repaired(Inner)) =>
         store[run[Outer].id] \in {run[Outer].outcome.value, run[Inner].outcome.value})

\* both calls repaired with different texts; the store keeps the text of one
\* call while the other call returned the value of its own text
Witness_C19 ==
  /\ SharedId
  /\ Repaired(Outer) /\ Repaired(Inner)
  /\ run[Outer].outcome.value = "T1" /\ run[Inner].outcome.value = "T2"
  /\ store[run[Outer].id] = "T1"

\* the call of p is inside the body of an attempt (lines 97-111)
InAttempt(p) == pc[p] \in {"oracle", "save", "execCorrected", "attemptCatch"}

\* C21 - Attempt bound: whatever the attempts end in, the oracle is invoked at
\* most maxAiRetries times and at most once per attempt; inside an attempt the
\* counter lies in 1..maxAiRetries, and a step of a run leaves the counter or
\* raises it by one.
Thm_C21 ==
  /\ [](\A p \in Procs :
          /\ obs[p].oracleCalls <= maxAiRetries
          /\ obs[p].oracleCalls <= run[p].attempt
          /\ InAttempt(p) => run[p].attempt \in 1..maxAiRetries)
  /\ [][\A p \in Procs :
          pc[p] \notin {"idle", "done"} =>
            /\ run'[p].attempt \in {run[p].attempt, run[p].attempt + 1}
            /\ obs'[p].oracleCalls \in {obs[p].oracleCalls, obs[p].oracleCalls + 1}
            /\ run[p].attempt = 0 => obs'[p].oracleCalls = 0]_vars

\* every one of two or more attempts asked the oracle and the run is exhausted
\* after a save failure or a failure of the corrected text
Witness_C21 ==
  \E p \in Procs :
    /\ pc[p] = "done" /\ maxAiRetries >= 2
    /\ IsRetryExhausted(run[p].outcome.error)
    /\ obs[p].oracleCalls = maxAiRetries /\ run[p].attempt = maxAiRetries
    /\ (obs[p].saveFailed \/ obs[p].correctedFailed)

\* the failure of an attempt was raised by the oracle call or by the validation
\* of its response (lines 142-179), as opposed to save or execution
ResponseRejected(e) ==
  e.obj.site \in {"invoke", "pause:146", "pause:157", "pause:162",
                  "pause:169", "pause:172", "pause:178"}

\* C22 - Sequential attempts: a run issues an oracle request only while none
\* of its requests is in flight, and a request after the first only when the
\* response to the previous one was received and rejected.
Cex_C22 ==
  [][\A p \in Procs :
       (Failed(p) /\ obs'[p].oracleCalls > obs[p].oracleCalls) =>
         /\ pc[p] # "oracle"
         /\ obs[p].oracleCalls >= 1 => ResponseRejected(run[p].lastAiAttemptError)]_vars

\* C23 - Request built from the original failure: all requests of a run carry
\* the same code text and the same error, namely the text kept at the start of
\* the run and the error caught at line 89; the text is none of the oracle's
\* corrections and the error is none raised inside an attempt, and neither
\* changes while the loop runs.
Thm_C23 ==
  /\ [](\A p \in Procs : \A r \in obs[p].requests :
          /\ r.id = run[p].id
          /\ r.originalCode = run[p].originalCodeString
          /\ r.originalCode \notin CorrectionTexts
          /\ r.error = run[p].error.obj
          /\ r.error.attempt = 0)
  /\ [][\A p \in Procs :
          (pc[p] \in {"loop", "oracle", "save", "execCorrected", "attemptCatch"}) =>
            /\ run'[p].error = run[p].error
            /\ run'[p].originalCodeString = run[p].originalCodeString]_vars

\* a second request was sent after the first correction had been accepted,
\* executed and had failed
Witness_C23 ==
  \E p \in Procs :
    /\ pc[p] = "oracle" /\ run[p].attempt = 2 /\ obs[p].oracleCalls = 2
    /\ obs[p].correctedFailed
    /\ run[p].lastAiAttemptError.obj.site = "code"

\* C24 - Failure context building never fails: whatever the arguments, no
\* attempt fails in building the request, and by the end of every attempt of a
\* run whose code failed the oracle has been invoked once per attempt.
Cex_C24 ==
  \A p \in Procs :
    (Failed(p) /\ pc[p] = "attemptCatch") =>
      /\ run[p].aiAttemptError.obj.site # "JSON.stringify"
      /\ obs[p].oracleCalls = run[p].attempt

\* C25 - Exactly the two fields: a tool call whose args object has a field
\* besides block_id and corrected_code, or lacks one of the two, is rejected
\* and uses up the attempt; none reaches save.
Cex_C25 ==
  \A p \in Procs :
    (Failed(p) /\ pc[p] = "save") =>
      /\ ~obs[p].resp.extra
      /\ obs[p].resp.corrected_code # Absent
      /\ ~obs[p].resp.mismatch

\* C26 - Validation is syntax-only: a response is turned down by the check of
\* lines 175-179 only when its text does not parse; a text that parses is
\* accepted even if evaluating it raises.
Cex_C26 ==
  \A p \in Procs :
    (Failed(p) /\ pc[p] = "attemptCatch" /\ run[p].aiAttemptError.obj.site = "pause:178") =>
      obs[p].resp.corrected_code = BadSyntaxText

\* what getFunctionFromDb(id) resolves to for the run of p
Fetched(p) == IF dbConfigured THEN obs[p].storeAtStart[run[p].id] ELSE NoText

\* C27 - Resolver choice: after the fetch, the persisted text is the variant
\* executed exactly when the fetch returned non-empty text, and it is the text
\* fetched; when the fetch returned null or the empty text the default is the
\* variant executed and no persisted text is.
Thm_C27 ==
  \A p \in Procs :
    (pc[p] \notin {"idle", "fetch"} /\ ValidType(run[p].fnType) /\ ~obs[p].fetchFailed) =>
      /\ run[p].savedFunctionString = Fetched(p)
      /\ run[p].executionSource = "db" <=> Fetched(p) \notin {NoText, EmptyText}
      /\ pc[p] = "execDb" <=> (obs[p].variantText = Absent /\ Fetched(p) \notin {NoText, EmptyText})
      /\ pc[p] = "execLocal" <=> (obs[p].variantText = Absent /\ Fetched(p) \in {NoText, EmptyText})
      /\ obs[p].variantText # Absent =>
           /\ obs[p].variantText = IF Fetched(p) \in {NoText, EmptyText}
                                   THEN DefaultText ELSE Fetched(p)
           /\ obs[p].defaultExecuted <=> Fetched(p) \in {NoText, EmptyText}

\* the store held the empty text for the id and the default was executed
Witness_C27 ==
  \E p \in Procs :
    /\ dbConfigured /\ obs[p].storeAtStart[run[p].id] = EmptyText
    /\ obs[p].variantText = DefaultText /\ obs[p].defaultExecuted
    /\ pc[p] = "done" /\ run[p].outcome = Returned(DefaultText)

\* ---- execution of one variant: the executors of run (lines 79, 84, 86, 103)
\* ---- applied to small concrete texts, for two calls that differ at most in
\* ---- their scope argument
MaxArgs == 2

\* identifiers that occur in the texts and in scopes
Names == {"p", "q", "s"}

\* numbers passed as arguments and held by scopes and closures; a JavaScript
\* undefined and a NaN are kept apart from them as negative numbers
ArgValues == {5, 10}
ScopeValues == {1, 2}
UndefinedValue == 0 - 1
NaN == 0 - 2

\* code texts, token by token
Text_pq == <<"(", "p", ",", "q", ")", "=>", "p", "+", "q">>
Text_pqBlock == <<"(", "p", ",", "q", ")", "=>", "{", "return", "p", "+", "q", "}">>
Text_ps == <<"(", "p", ")", "=>", "p", "+", "s">>
Text_s == <<"(", ")", "=>", "s">>
Text_fn == <<"function", "(", "q", ")", "{", "return", "q", "+", "s", "}">>
Texts == {Text_pq, Text_pqBlock, Text_ps, Text_s, Text_fn}

\* the scope objects and argument lists of a call
Scopes == UNION {[D -> ScopeValues] : D \in SUBSET {"p", "s"}}
ArgLists == UNION {[1..n -> ArgValues] : n \in 0..MaxArgs}

\* the variable a function default closes over
ClosureEnv == [n \in {"s"} |-> 2]

\* which variant of the call is executed: a function default (84), a text
\* default (86), a persisted text (79) or a corrected text (103)
Paths == {"callable", "text", "persisted", "corrected"}

\* the position of the first token t in a text, 0 when there is none
IndexOf(text, t) ==
  IF \E i \in 1..Len(text) : text[i] = t
  THEN CHOOSE i \in 1..Len(text) : text[i] = t /\ \A j \in 1..(i - 1) : text[j] # t
  ELSE 0

\* lines 327-328: the names between the first "(" and the first ")" after it
InferParams(codeString) ==
  LET open == IndexOf(codeString, "(")
      close == IndexOf(codeString, ")")
  IN IF open = 0 \/ close < open THEN <<>>
     ELSE SelectSeq(SubSeq(codeString, open + 1, close - 1), LAMBDA t : t # ",")

\* lines 335-345: the block of an arrow or function text, or the expression
\* of an arrow text behind a return
InferBody(codeString) ==
  LET brace == IndexOf(codeString, "{")
      arrow == IndexOf(codeString, "=>")
  IN IF brace # 0 /\ codeString[Len(codeString)] = "}"
     THEN SubSeq(codeString, brace + 1, Len(codeString) - 1)
     ELSE IF arrow # 0
     THEN <<"return">> \o SubSeq(codeString, arrow + 1, Len(codeString))
     ELSE codeString

\* BindScope as if the scope entries were spread over the bound arguments
BindScope_ScopeWins(scope, params, args) ==
  [n \in DOMAIN scope \cup {params[i] : i \in 1..Len(params)} |->
     IF n \in DOMAIN scope THEN scope[n]
     ELSE LET i == CHOOSE j \in 1..Len(params) :
                     params[j] = n /\ \A k \in (j + 1)..Len(params) : params[k] # n
          IN IF i <= Len(args) THEN args[i] ELSE UndefinedValue]

\* lines 330-333: executionScope = { ...scope }, then executionScope[param] =
\* args[index] for every inferred parameter
BindScope(scope, params, args) ==
  [n \in DOMAIN scope \cup {params[i] : i \in 1..Len(params)} |->
     IF \E i \in 1..Len(params) : params[i] = n
     THEN LET i == CHOOSE j \in 1..Len(params) :
                     params[j] = n /\ \A k \in (j + 1)..Len(params) : params[k] # n
          IN IF i <= Len(args) THEN args[i] ELSE UndefinedValue
     ELSE scope[n]]

\* a + b of JavaScript on the modelled values
Plus(a, b) == IF a < 0 \/ b < 0 THEN NaN ELSE a + b

RECURSIVE SumOf(_, _)
SumOf(names, env) ==
  IF names = <<>> THEN 0
  ELSE IF Len(names) = 1 THEN env[names[1]]
  ELSE Plus(env[names[1]], SumOf(Tail(names), env))

\* the ReferenceError of a name that no binding provides
ReferenceError(n) == Err(ErrObj("code", n, 0), <<n, "is not defined">>)

\* running a body "return n1 + ... + nm" with the bindings env
Evaluate(body, env) ==
  LET names == SelectSeq(body, LAMBDA t : t \in Names)
  IN IF \E i \in 1..Len(names) : names[i] \notin DOMAIN env
     THEN LET i == CHOOSE j \in 1..Len(names) :
                     names[j] \notin DOMAIN env
                     /\ \A k \in 1..(j - 1) : names[k] \in DOMAIN env
          IN Thrown(ReferenceError(names[i]))
     ELSE Returned(SumOf(names, env))

\* the bindings of a call of the function a text denotes: its parameters to
\* the positional arguments, over the variables env of where it was created
CallEnv(codeString, env, args) ==
  LET params == InferParams(codeString)
  IN [n \in DOMAIN env \cup {params[i] : i \in 1..Len(params)} |->
        IF \E i \in 1..Len(params) : params[i] = n
        THEN LET i == CHOOSE j \in 1..Len(params) : params[j] = n
             IN IF i <= Len(args) THEN args[i] ELSE UndefinedValue
        ELSE env[n]]

\* lines 347-353: evalFn = new AsyncFunction(...keys, body); evalFn(...values)
ExecuteCodeStringViaEval(body, executionScope) == Evaluate(body, executionScope)

\* lines 290-304: (codeString)(...args) inside new Function, which sees no
\* variables but the global ones
ExecuteFunctionString(codeString, args) ==
  Evaluate(InferBody(codeString), CallEnv(codeString, <<>>, args))

\* line 84: fnOrCode(...args), the function seeing the variables it closed over
CallFunction(codeString, args) ==
  Evaluate(InferBody(codeString), CallEnv(codeString, ClosureEnv, args))

\* the frame of one call: what it was called with and what its executor has
\* computed so far
Frame(path, codeString, scope, args) ==
  [id |-> IdleRun.id, path |-> path, codeString |-> codeString, scope |-> scope,
   args |-> args, params |-> <<>>, executionScope |-> <<>>,
   outcome |-> IdleRun.outcome]

\* an instance built with the defaults of lines 30-32, and two calls that get
\* the same variant and arguments and any two scopes
InitScope ==
  /\ llm = FALSE /\ maxAiRetries = DefaultMaxAiRetries /\ dbConfigured = FALSE
  /\ store = [i \in Ids |-> NoText]
  /\ calls = 0
  /\ obs = [p \in Procs |-> IdleObs]
  /\ pc = [p \in Procs |-> "dispatch"]
  /\ \E path \in Paths, codeString \in Texts, args \in ArgLists, s1, s2 \in Scopes :
       run = [p \in Procs |->
                Frame(path, codeString, IF p = Outer THEN s1 ELSE s2, args)]

\* DispatchTarget as if every variant were run through _executeCodeStringViaEval
DispatchTarget_AlwaysEval(path) == "eval"

\* lines 79, 84, 86 and 103: the executor each variant is handed to
DispatchTarget(path) ==
  IF path = "text" THEN "eval"
  ELSE IF path = "callable" THEN "callFn"
  ELSE "execString"

Dispatch(p) ==
  /\ pc[p] = "dispatch"
  /\ pc' = [pc EXCEPT ![p] = DispatchTarget(run[p].path)]
  /\ UNCHANGED <<llm, maxAiRetries, dbConfigured, store, calls, run, obs>>

\* lines 325-333 of _executeCodeStringViaEval(fnOrCode, id, scope, ...args)
EvalBind(p) ==
  /\ pc[p] = "eval"
  /\ LET params == InferParams(run[p].codeString)
     IN run' = [run EXCEPT ![p].params = params,
                           ![p].executionScope = BindScope(run[p].scope, params, run[p].args)]
  /\ pc' = [pc EXCEPT ![p] = "evalBound"]
  /\ UNCHANGED <<llm, maxAiRetries, dbConfigured, store, calls, obs>>

\* a failed execution raises the error with the executor's message, else the
\* value is returned
Settle(outcome, wrapped) ==
  IF outcome.type = "throw" THEN Thrown(wrapped) ELSE outcome

\* lines 335-362 of _executeCodeStringViaEval
EvalCall(p) ==
  /\ pc[p] = "evalBound"
  /\ LET out == ExecuteCodeStringViaEval(InferBody(run[p].codeString),
                                         run[p].executionScope)
     IN run' = [run EXCEPT ![p].outcome = Settle(out, WrapEval(out.error, run[p].id))]
  /\ pc' = [pc EXCEPT ![p] = "done"]
  /\ UNCHANGED <<llm, maxAiRetries, dbConfigured, store, calls, obs>>

\* lines 290-310: _executeFunctionString(codeString, id, ...args)
ExecString(p) ==
  /\ pc[p] = "execString"
  /\ LET out == ExecuteFunctionString(run[p].codeString, run[p].args)
     IN run' = [run EXCEPT ![p].outcome =
                  Settle(out, WrapFunctionString(out.error, run[p].id))]
  /\ pc' = [pc EXCEPT ![p] = "done"]
  /\ UNCHANGED <<llm, maxAiRetries, dbConfigured, store, calls, obs>>

\* line 84: await fnOrCode(...args)
CallFn(p) ==
  /\ pc[p] = "callFn"
  /\ run' = [run EXCEPT ![p].outcome = CallFunction(run[p].codeString, run[p].args)]
  /\ pc' = [pc EXCEPT ![p] = "done"]
  /\ UNCHANGED <<llm, maxAiRetries, dbConfigured, store, calls, obs>>

StepScope(p) ==
  \/ Dispatch(p)
  \/ EvalBind(p)
  \/ EvalCall(p)
  \/ ExecString(p)
  \/ CallFn(p)

NextScope == \E p \in Procs : StepScope(p)

SpecScope == InitScope /\ [][NextScope]_vars

\* the names of a parameter list
ParamSet(params) == {params[i] : i \in 1..Len(params)}

\* C28 - Scope binding: when a text default is evaluated, the execution scope
\* binds the i-th inferred parameter to the i-th argument for every i up to the
\* shorter of the two lists, also when the scope has an entry of that name, and
\* every scope entry whose name is no parameter keeps its value; the texts
\* (p, q) => p + q and (p, q) => { return p + q } with scope {} and arguments
\* (5, 10) yield 15.
Thm_C28 ==
  \A p \in Procs :
    (run[p].path = "text" /\ pc[p] \in {"evalBound", "done"}) =>
      LET params == InferParams(run[p].codeString)
          es == run[p].executionScope
      IN /\ run[p].params = params
         /\ DOMAIN es = DOMAIN run[p].scope \cup ParamSet(params)
         /\ \A i \in 1..Len(params) :
              i <= Len(run[p].args) => es[params[i]] = run[p].args[i]
         /\ \A n \in DOMAIN run[p].scope \ ParamSet(params) : es[n] = run[p].scope[n]
         /\ (/\ pc[p] = "done"
             /\ run[p].codeString \in {Text_pq, Text_pqBlock}
             /\ DOMAIN run[p].scope = {} /\ run[p].args = <<5, 10>>) =>
              run[p].outcome = Returned(15)

\* (p, q) => p + q with arguments (5, 10): one call with scope {} yields 15,
\* the other with scope {p: 1, s: 2} has p bound to 5 and s kept at 2
Witness_C28 ==
  /\ pc[Outer] = "done" /\ pc[Inner] = "done"
  /\ run[Outer].path = "text" /\ run[Outer].codeString = Text_pq
  /\ run[Outer].args = <<5, 10>>
  /\ DOMAIN run[Outer].scope = {} /\ run[Outer].outcome = Returned(15)
  /\ DOMAIN run[Inner].scope = {"p", "s"}
  /\ run[Inner].scope["p"] = 1 /\ run[Inner].scope["s"] = 2
  /\ run[Inner].executionScope["p"] = 5 /\ run[Inner].executionScope["s"] = 2
  /\ run[Inner].outcome = Returned(15)

\* C29 - Scope only for textual defaults: a function default, a persisted text
\* and a corrected text are executed with the positional arguments only; no
\* execution scope is built for them, and two calls that differ only in their
\* scope end with the same outcome.
Thm_C29 ==
  \A p \in Procs :
    run[p].path # "text" =>
      /\ pc[p] # "evalBound"
      /\ DOMAIN run[p].executionScope = {}
      /\ (pc[Outer] = "done" /\ pc[Inner] = "done") =>
           run[Outer].outcome = run[Inner].outcome

\* the persisted text (p) => p + s fails on s in both calls although one of
\* the scopes provides s
Witness_C29 ==
  /\ pc[Outer] = "done" /\ pc[Inner] = "done"
  /\ run[Outer].path = "persisted" /\ run[Outer].codeString = Text_ps
  /\ "s" \in DOMAIN run[Outer].scope /\ "s" \notin DOMAIN run[Inner].scope
  /\ run[Outer].outcome.type = "throw"
  /\ run[Outer].outcome = run[Inner].outcome

\* ---- one call followed to its end: every await of the call completes, so a
\* ---- step of the call that is possible is eventually taken
\* lines 66-72: the one call of the behaviour
StartOnce == pc[Outer] = "idle" /\ Start(Outer)

NextLive ==
  \/ StartOnce
  \/ Fetch(Outer)
  \/ ExecDb(Outer)
  \/ ExecLocal(Outer)
  \/ Catch(Outer)
  \/ Loop(Outer)
  \/ OracleRespond(Outer)
  \/ Save(Outer)
  \/ ExecCorrected(Outer)
  \/ AttemptCatch(Outer)

SpecLive == Init /\ [][NextLive]_vars /\ WF_vars(NextLive)

\* C30 - Termination: a call that has started eventually ends, by returning or
\* by raising, whatever maxAiRetries is; an execution that succeeds ends the
\* call with its value, a call that ends otherwise raises or has run out of
\* attempts, and a call that has ended takes no further step.
Thm_C30 ==
  /\ (pc[Outer] # "idle") ~> (pc[Outer] = "done")
  /\ [](pc[Outer] = "done" => run[Outer].outcome.type \in {"return", "throw"})
  /\ [][/\ pc[Outer] = "done" => (pc'[Outer] = "done" /\ run' = run /\ store' = store)
        /\ (pc[Outer] \in {"execDb", "execLocal", "execCorrected"}
            /\ pc'[Outer] \notin {"catch", "attemptCatch"}) =>
             /\ pc'[Outer] = "done"
             /\ run'[Outer].outcome = Returned(obs'[Outer].lastExecuted)
        /\ (pc[Outer] \notin {"idle", "done", "execDb", "execLocal", "execCorrected"}
            /\ pc'[Outer] = "done") =>
             \/ run'[Outer].outcome.type = "throw"
             \/ run[Outer].attempt > maxAiRetries]_vars

\* the call has gone through the highest number of attempts of the instances
\* considered and has ended exhausted
Witness_C30 ==
  /\ pc[Outer] = "done" /\ maxAiRetries = DefaultMaxAiRetries
  /\ run[Outer].attempt = maxAiRetries /\ obs[Outer].oracleCalls = maxAiRetries
  /\ IsRetryExhausted(run[Outer].outcome.error)

\* the call of p is in its repair part (lines 89-117)
InRepair(p) ==
  pc[p] \in {"catch", "loop", "oracle", "save", "execCorrected", "attemptCatch"}

\* C31 - Single resolution per run: a run with valid input fetches the store
\* once, before anything is executed and before any oracle request; when the
\* fetch has returned, the variant it selected is executed once, before the
\* repair part; the repair part neither fetches nor executes that variant
\* again: what it executes is the correction its attempt accepted.
Thm_C31 ==
  /\ [](\A p \in Procs :
          (pc[p] # "idle" /\ ValidType(run[p].fnType)) =>
            /\ obs[p].fetchCalls = IF pc[p] = "fetch" THEN 0 ELSE 1
            /\ pc[p] \in {"fetch", "execDb", "execLocal"} =>
                 /\ obs[p].lastExecuted = Absent /\ obs[p].variantText = Absent
                 /\ obs[p].oracleCalls = 0
            /\ (pc[p] \notin {"fetch", "execDb", "execLocal"} /\ ~obs[p].fetchFailed) =>
                 obs[p].variantText # Absent)
  /\ [][\A p \in Procs :
          /\ obs'[p].fetchCalls > obs[p].fetchCalls => pc[p] = "fetch"
          /\ (obs[p].variantText = Absent /\ obs'[p].variantText # Absent) =>
               /\ pc[p] \in {"execDb", "execLocal"}
               /\ obs'[p].lastExecuted = obs'[p].variantText
          /\ InRepair(p) =>
               /\ pc'[p] \in {"done"} \/ InRepair(p)'
               /\ obs'[p].fetchCalls = obs[p].fetchCalls
               /\ obs'[p].variantText = obs[p].variantText
               /\ obs'[p].defaultExecuted = obs[p].defaultExecuted
               /\ obs'[p].lastExecuted # obs[p].lastExecuted =>
                    /\ pc[p] = "execCorrected"
                    /\ obs'[p].lastExecuted = obs[p].resp.corrected_code]_vars

\* a run whose persisted text failed has gone through two attempts that each
\* executed a correction, and has ended
Witness_C31 ==
  \E p \in Procs :
    /\ pc[p] = "done" /\ obs[p].fetchCalls = 1
    /\ obs[p].variantText = PersistedText /\ Failed(p)
    /\ run[p].attempt = 2 /\ obs[p].oracleCalls = 2
    /\ obs[p].correctedFailed /\ obs[p].lastExecuted \in GoodTexts

\* C32 - No rollback of a saved correction: a correction is in the store
\* before it is executed; inside a run the store changes only by the save of
\* an accepted correction under the run's id, so that the entry of the id
\* holds the correction saved last, also after the execution of it has failed
\* and the run has ended exhausted; the next run for that id starts from this
\* entry and executes it, not its default.
Thm_C32 ==
  /\ [](\A p \in Procs :
          /\ (pc[p] = "execCorrected" /\ dbConfigured) =>
               /\ store[run[p].id] = run[p].correctedCode
               /\ obs[p].lastSaved = run[p].correctedCode
          /\ (pc[p] # "idle" /\ dbConfigured /\ obs[p].lastSaved # Absent) =>
               /\ store[run[p].id] = obs[p].lastSaved
               /\ obs[p].lastSaved \in GoodTexts
          /\ (pc[p] \notin {"idle", "fetch"} /\ ~obs[p].fetchFailed /\ dbConfigured
              /\ obs[p].storeAtStart[run[p].id] \in GoodTexts) =>
               /\ ~obs[p].defaultExecuted
               /\ obs[p].variantText \in {Absent, obs[p].storeAtStart[run[p].id]})
  /\ [][\A p \in Procs :
          /\ (pc[p] \notin {"idle", "done"} /\ store' # store) =>
               /\ pc[p] = "save"
               /\ store' = [store EXCEPT ![run[p].id] = run[p].correctedCode]
          /\ (/\ pc[p] = "done" /\ pc'[p] # "done" /\ dbConfigured
              /\ obs[p].lastSaved # Absent /\ run'[p].id = run[p].id) =>
               /\ obs'[p].storeAtStart[run'[p].id] = obs[p].lastSaved
               /\ store' = store]_vars

\* a run saved a correction over a persisted text, executed it, the execution
\* failed, and the run has ended exhausted with the correction in the store
Witness_C32 ==
  \E p \in Procs :
    /\ pc[p] = "done" /\ dbConfigured /\ Failed(p)
    /\ IsRetryExhausted(run[p].outcome.error)
    /\ obs[p].correctedFailed /\ ~obs[p].saveFailed
    /\ obs[p].storeAtStart[run[p].id] = PersistedText
    /\ obs[p].lastSaved \in GoodTexts
    /\ store[run[p].id] = obs[p].lastSaved

====
